---------------------------- MODULE Spec2Model ----------------------------
(***************************************************************************)
(* A model of src/main.py: the Chudnovsky series evaluated with exact      *)
(* rational arithmetic by a pool of workers (compute_pi_terms), the merge  *)
(* of the partial sums, the integer Newton square root                     *)
(* (high_precision_sqrt), the long division (high_precision_division) and  *)
(* the rounding and reporting at the end of main.                          *)
(*                                                                         *)
(* Every function call is a frame: a record of the function's locals, with *)
(* pc the position in its body.  One action is one straight-line block of  *)
(* the source (a loop iteration, the code between two loops).              *)
(***************************************************************************)
EXTENDS Integers, Sequences, FiniteSets, TLC

VARIABLES
    main,       \* the frame of main()
    workers,    \* the frames of compute_pi_terms, one per task of pool.starmap
    sqrt,       \* the frame of high_precision_sqrt
    division    \* the frame of high_precision_division

vars == <<main, workers, sqrt, division>>

(* the value of a local that has not been assigned yet *)
None == "None"

(* an exception: its class and its arguments (str(e) shows the arguments) *)
Exc(type, args) == [type |-> type, args |-> args]
ZeroDivisionError == Exc("ZeroDivisionError", <<"integer division or modulo by zero">>)

(***************************************************************************)
(* Python's int is unbounded.  Every Python int of the program is modelled *)
(* as a record [neg, mag]: a sign and a magnitude, the magnitude a         *)
(* sequence of limbs in base BASE, least significant first, without        *)
(* leading zero limbs (zero is the empty sequence), so that equal numbers  *)
(* are equal values.  Small loop counters stay plain integers.             *)
(***************************************************************************)
BASE == 10 ^ 4

Max(x, y) == IF x >= y THEN x ELSE y
Min(x, y) == IF x <= y THEN x ELSE y

Limb(a, i) == IF i <= Len(a) THEN a[i] ELSE 0

(* a without its leading zero limbs *)
NatStrip(a) ==
    LET nz == {i \in 1..Len(a) : a[i] # 0}
    IN  IF nz = {} THEN <<>>
        ELSE SubSeq(a, 1, CHOOSE i \in nz : \A j \in nz : j <= i)

(* -1, 0, 1 as a < b, a = b, a > b *)
NatCmp(a, b) ==
    IF Len(a) < Len(b) THEN -1
    ELSE IF Len(a) > Len(b) THEN 1
    ELSE LET df == {i \in 1..Len(a) : a[i] # b[i]}
         IN  IF df = {} THEN 0
             ELSE LET k == CHOOSE i \in df : \A j \in df : j <= i
                  IN  IF a[k] < b[k] THEN -1 ELSE 1

NatShift(a, k) == IF a = <<>> THEN a ELSE [i \in 1..k |-> 0] \o a

(* The loops of the arithmetic on magnitudes.  A loop is a record: its     *)
(* name, its operands and its running variables.                           *)
AddLoop(a, b)     == [loop |-> "add", a |-> a, b |-> b, i |-> 1, c |-> 0, acc |-> <<>>]
SubLoop(a, b)     == [loop |-> "sub", a |-> a, b |-> b, i |-> 1, c |-> 0, acc |-> <<>>]
MulLimbLoop(a, d) == [loop |-> "mullimb", a |-> a, d |-> d, i |-> 1, c |-> 0, acc |-> <<>>]
MulLoop(a, b)     == [loop |-> "mul", a |-> a, b |-> b, i |-> 1, acc |-> <<>>]
QuotLoop(r, b)    == [loop |-> "quot", r |-> r, b |-> b, lo |-> 0, hi |-> BASE - 1]
DivModLoop(a, b)  == [loop |-> "divmod", a |-> a, b |-> b, i |-> Len(a), q |-> <<>>, r |-> <<>>]
GcdLoop(a, b)     == [loop |-> "gcd", a |-> a, b |-> b]

(* Limbs("run", s, n) runs the loop s to its end, Limbs("done", s, 0) is its   *)
(* exit condition and Limbs("step", s, 0) one iteration.  The loops use one  *)
(* another (the division multiplies and subtracts), and all are branches   *)
(* of this one recursive operator.                                         *)
(*   add      a + b, limb by limb with carry c                             *)
(*   sub      a - b for a >= b, with borrow c (leading zeros left in acc)  *)
(*   mullimb  a * d for one limb d                                         *)
(*   mul      a * b, one row a * b[i] at a time                            *)
(*   quot     the largest limb q with b * q <= r, by bisection, r < b*BASE *)
(*   divmod   q = a div b and r = a mod b for b > 0: long division, most   *)
(*            significant limb first                                       *)
(*   gcd      Euclid's algorithm                                           *)
LoopDone(s) ==
    CASE s.loop = "add"     -> s.i > Max(Len(s.a), Len(s.b)) /\ s.c = 0
      [] s.loop = "sub"     -> s.i > Len(s.a)
      [] s.loop = "mullimb" -> s.d = 0 \/ (s.i > Len(s.a) /\ s.c = 0)
      [] s.loop = "mul"     -> s.i > Len(s.b)
      [] s.loop = "quot"    -> s.lo = s.hi
      [] s.loop = "divmod"  -> s.i = 0
      [] s.loop = "gcd"     -> s.b = <<>>

RECURSIVE Limbs(_, _, _)
Limbs(op, s, n) ==
    CASE op = "run" ->
           LET m == Limbs("iter", s, n)
           IN  IF LoopDone(m) THEN m ELSE Limbs("run", m, 2 * n)
      [] op = "iter" ->
           IF LoopDone(s) THEN s
           ELSE IF n = 1 THEN Limbs("step", s, 0)
           ELSE LET m == Limbs("iter", s, n \div 2)
                IN  IF LoopDone(m) THEN m ELSE Limbs("iter", m, n - n \div 2)
      [] op = "step" /\ s.loop = "add" ->
           LET x == Limb(s.a, s.i) + Limb(s.b, s.i) + s.c
           IN  [s EXCEPT !.i = s.i + 1, !.c = x \div BASE,
                         !.acc = Append(s.acc, x % BASE)]
      [] op = "step" /\ s.loop = "sub" ->
           LET x == s.a[s.i] - Limb(s.b, s.i) - s.c
           IN  [s EXCEPT !.i = s.i + 1, !.c = IF x < 0 THEN 1 ELSE 0,
                         !.acc = Append(s.acc, IF x < 0 THEN x + BASE ELSE x)]
      [] op = "step" /\ s.loop = "mullimb" ->
           LET x == Limb(s.a, s.i) * s.d + s.c
           IN  [s EXCEPT !.i = s.i + 1, !.c = x \div BASE,
                         !.acc = Append(s.acc, x % BASE)]
      [] op = "step" /\ s.loop = "mul" ->
           LET row == Limbs("run", MulLimbLoop(s.a, s.b[s.i]), 8).acc
           IN  [s EXCEPT !.i = s.i + 1,
                         !.acc = Limbs("run", AddLoop(s.acc, NatShift(row, s.i - 1)), 8).acc]
      [] op = "step" /\ s.loop = "quot" ->
           LET mid == (s.lo + s.hi + 1) \div 2
               bq  == Limbs("run", MulLimbLoop(s.b, mid), 8).acc
           IN  IF NatCmp(bq, s.r) <= 0 THEN [s EXCEPT !.lo = mid]
                                       ELSE [s EXCEPT !.hi = mid - 1]
      [] op = "step" /\ s.loop = "divmod" ->
           LET r1 == IF s.r = <<>> /\ s.a[s.i] = 0 THEN <<>> ELSE <<s.a[s.i]>> \o s.r
               d  == IF NatCmp(r1, s.b) < 0 THEN 0
                     ELSE Limbs("run", QuotLoop(r1, s.b), 8).lo
               bd == Limbs("run", MulLimbLoop(s.b, d), 8).acc
           IN  [s EXCEPT !.i = s.i - 1, !.q = <<d>> \o s.q,
                         !.r = IF d = 0 THEN r1
                               ELSE NatStrip(Limbs("run", SubLoop(r1, bd), 8).acc)]
      [] op = "step" /\ s.loop = "gcd" ->
           [s EXCEPT !.a = s.b, !.b = Limbs("run", DivModLoop(s.a, s.b), 8).r]

NatAdd(a, b) == Limbs("run", AddLoop(a, b), 8).acc
NatSub(a, b) == NatStrip(Limbs("run", SubLoop(a, b), 8).acc)
NatMul(a, b) == Limbs("run", MulLoop(a, b), 8).acc
(* <<a div b, a mod b>> for b > 0 *)
NatDivMod(a, b) ==
    LET f == Limbs("run", DivModLoop(a, b), 8)
    IN  <<NatStrip(f.q), f.r>>
NatGcd(a, b) == Limbs("run", GcdLoop(a, b), 8).a

RECURSIVE NatFromInt(_)
NatFromInt(n) == IF n = 0 THEN <<>> ELSE <<n % BASE>> \o NatFromInt(n \div BASE)

(*************************** signed integers ******************************)
Mk(neg, mag) == [neg |-> neg /\ mag # <<>>, mag |-> mag]
Int0 == Mk(FALSE, <<>>)
IntOf(n) == IF n < 0 THEN Mk(TRUE, NatFromInt(-n)) ELSE Mk(FALSE, NatFromInt(n))
IsZero(x) == x.mag = <<>>
IntNeg(x) == Mk(~x.neg, x.mag)
IntAbs(x) == Mk(FALSE, x.mag)
IntAdd(x, y) ==
    IF x.neg = y.neg THEN Mk(x.neg, NatAdd(x.mag, y.mag))
    ELSE IF NatCmp(x.mag, y.mag) >= 0 THEN Mk(x.neg, NatSub(x.mag, y.mag))
    ELSE Mk(y.neg, NatSub(y.mag, x.mag))
IntSub(x, y) == IntAdd(x, IntNeg(y))
IntMul(x, y) == Mk(x.neg # y.neg, NatMul(x.mag, y.mag))
IntCmp(x, y) ==
    IF x.neg /\ ~y.neg THEN -1
    ELSE IF ~x.neg /\ y.neg THEN 1
    ELSE IF x.neg THEN NatCmp(y.mag, x.mag) ELSE NatCmp(x.mag, y.mag)
IntLt(x, y) == IntCmp(x, y) < 0
IntLe(x, y) == IntCmp(x, y) <= 0
(* Python's // and %: the quotient rounds towards minus infinity and the   *)
(* remainder has the sign of the divisor; y # 0                            *)
IntDivMod(x, y) ==
    LET qr == NatDivMod(x.mag, y.mag)
    IN  IF x.neg = y.neg THEN <<Mk(FALSE, qr[1]), Mk(y.neg, qr[2])>>
        ELSE IF qr[2] = <<>> THEN <<Mk(TRUE, qr[1]), Int0>>
        ELSE <<Mk(TRUE, NatAdd(qr[1], <<1>>)), Mk(y.neg, NatSub(y.mag, qr[2]))>>
IntFloorDiv(x, y) == IntDivMod(x, y)[1]
IntMod(x, y) == IntDivMod(x, y)[2]
(* math.gcd: the non-negative greatest common divisor, gcd(0, n) = |n| *)
IntGcd(x, y) == Mk(FALSE, NatGcd(x.mag, y.mag))
(* x ** e for e >= 0, by squaring *)
RECURSIVE IntPow(_, _)
IntPow(x, e) ==
    IF e = 0 THEN IntOf(1)
    ELSE LET h == IntPow(x, e \div 2)
             sq == IntMul(h, h)
         IN  IF e % 2 = 0 THEN sq ELSE IntMul(sq, x)

(* lo * (lo + 1) * ... * hi, 1 when lo > hi *)
RECURSIVE IntProduct(_, _)
IntProduct(lo, hi) ==
    IF lo > hi THEN IntOf(1)
    ELSE IF lo = hi THEN IntOf(lo)
    ELSE LET mid == (lo + hi) \div 2
         IN  IntMul(IntProduct(lo, mid), IntProduct(mid + 1, hi))

(* math.factorial *)
IntFactorial(n) == IntProduct(1, n)

(***************************** decimal strings ****************************)
(* A Python str is a sequence of one-character strings.                    *)
DigitChars == <<"0", "1", "2", "3", "4", "5", "6", "7", "8", "9">>
DigitChar(d) == DigitChars[d + 1]
CharDigit(c) == CHOOSE d \in 0..9 : DigitChars[d + 1] = c
IsDigitChar(c) == \E d \in 0..9 : DigitChars[d + 1] = c

(* str(x): the decimal digits of the limbs, most significant first,        *)
(* without leading zeros, after the sign                                   *)
IntStr(x) ==
    LET m   == x.mag
        n   == 4 * Len(m)
        all == [i \in 1..n |->
                   LET limb == m[Len(m) - (i - 1) \div 4]
                   IN  DigitChar((limb \div (10 ^ (3 - ((i - 1) % 4)))) % 10)]
        nz  == {i \in 1..n : all[i] # "0"}
    IN  IF m = <<>> THEN <<"0">>
        ELSE (IF x.neg THEN <<"-">> ELSE <<>>)
             \o SubSeq(all, CHOOSE i \in nz : \A j \in nz : i <= j, n)

(* int(s) for a non-empty string of decimal digits *)
StrInt(str) ==
    LET n    == Len(str)
        d(p) == IF p < 1 THEN 0 ELSE CharDigit(str[p])
    IN  Mk(FALSE,
           NatStrip([j \in 1..((n + 3) \div 4) |->
                        d(n - 4 * j + 4) + 10 * d(n - 4 * j + 3)
                        + 100 * d(n - 4 * j + 2) + 1000 * d(n - 4 * j + 1)]))

(* str.zfill(width) of an unsigned numeral *)
Zfill(str, width) ==
    IF Len(str) >= width THEN str ELSE [i \in 1..(width - Len(str)) |-> "0"] \o str

(************************** high_precision_sqrt ***************************)
(* pc: "start" (line 90), "prepass" (the loop of lines 95-99), "scale"     *)
(* (line 102), "newton" (the loop of lines 108-110), "return", "raise".    *)
SqrtIdle == [pc |-> "idle"]

SqrtCall(n, precision) ==
    [pc |-> "start", n |-> n, precision |-> precision, x |-> None, y |-> None,
     scaled_n |-> None, prev_x |-> None, ret |-> None, exc |-> None]

(* x = v // 2; if x == 0: x = 1    (lines 90-92 and 103-105) *)
InitialGuess(v) ==
    LET x == IntFloorDiv(v, IntOf(2))
    IN  IF IsZero(x) THEN IntOf(1) ELSE x

(* (x + v // x) // 2 for x # 0     (lines 96 and 110) *)
NewtonStep(x, v) == IntFloorDiv(IntAdd(x, IntFloorDiv(v, x)), IntOf(2))

(* line 102 with the scale 10**precision *)
ScaledNSingle(n, precision) == IntMul(n, IntPow(IntOf(10), precision))

(* n * 10**(2 * precision)         (line 102) *)
ScaledN(n, precision) == IntMul(n, IntPow(IntOf(10), 2 * precision))

high_precision_sqrt_start ==
    /\ sqrt.pc = "start"
    /\ sqrt' = [sqrt EXCEPT !.pc = "prepass", !.x = InitialGuess(sqrt.n)]
    /\ UNCHANGED <<main, workers, division>>

(* one iteration of "while True" (lines 95-99); n // x raises               *)
(* ZeroDivisionError when x is 0                                           *)
high_precision_sqrt_prepass ==
    /\ sqrt.pc = "prepass"
    /\ sqrt' = IF IsZero(sqrt.x)
               THEN [sqrt EXCEPT !.pc = "raise", !.exc = ZeroDivisionError]
               ELSE LET y == NewtonStep(sqrt.x, sqrt.n)
                    IN  IF IntCmp(y, sqrt.x) >= 0
                        THEN [sqrt EXCEPT !.pc = "scale", !.y = y]
                        ELSE [sqrt EXCEPT !.y = y, !.x = y]
    /\ UNCHANGED <<main, workers, division>>

(* lines 102-107 *)
high_precision_sqrt_scale ==
    /\ sqrt.pc = "scale"
    /\ LET scaled_n == ScaledN(sqrt.n, sqrt.precision)
       IN  sqrt' = [sqrt EXCEPT !.pc = "newton", !.scaled_n = scaled_n,
                                !.x = InitialGuess(scaled_n), !.prev_x = IntOf(-1)]
    /\ UNCHANGED <<main, workers, division>>

(* one iteration of "while x != prev_x" (lines 108-110) *)
high_precision_sqrt_newton ==
    /\ sqrt.pc = "newton"
    /\ sqrt.x # sqrt.prev_x
    /\ sqrt' = IF IsZero(sqrt.x)
               THEN [sqrt EXCEPT !.pc = "raise", !.exc = ZeroDivisionError,
                                 !.prev_x = sqrt.x]
               ELSE [sqrt EXCEPT !.prev_x = sqrt.x,
                                 !.x = NewtonStep(sqrt.x, sqrt.scaled_n)]
    /\ UNCHANGED <<main, workers, division>>

(* the loop's exit and line 112 *)
high_precision_sqrt_return ==
    /\ sqrt.pc = "newton"
    /\ sqrt.x = sqrt.prev_x
    /\ sqrt' = [sqrt EXCEPT !.pc = "return", !.ret = sqrt.x]
    /\ UNCHANGED <<main, workers, division>>

SqrtNext ==
    \/ high_precision_sqrt_start
    \/ high_precision_sqrt_prepass
    \/ high_precision_sqrt_scale
    \/ high_precision_sqrt_newton
    \/ high_precision_sqrt_return

(************************ high_precision_division *************************)
(* pc: "start" (line 117), "loop" (the for loop of lines 122-128), "pad"   *)
(* (line 131, the for loop is over), "return", "raise".  `iter` counts    *)
(* the iterations of "for _ in range(digits + 10)".                        *)
DivIdle == [pc |-> "idle"]

DivCall(numerator, denominator, digits) ==
    [pc |-> "start", numerator |-> numerator, denominator |-> denominator,
     digits |-> digits, quotient |-> None, remainder |-> None,
     decimal_digits |-> None, iter |-> None, ret |-> None, exc |-> None]

(* ''.join(list) *)
RECURSIVE Join(_)
Join(list) ==
    IF list = <<>> THEN <<>>
    ELSE IF Len(list) = 1 THEN list[1]
    ELSE LET mid == Len(list) \div 2
         IN  Join(SubSeq(list, 1, mid)) \o Join(SubSeq(list, mid + 1, Len(list)))

(* lines 117-121; // and % raise ZeroDivisionError for a zero denominator *)
high_precision_division_start ==
    /\ division.pc = "start"
    /\ division' =
         IF IsZero(division.denominator)
         THEN [division EXCEPT !.pc = "raise", !.exc = ZeroDivisionError]
         ELSE [division EXCEPT
                 !.pc = "loop",
                 !.quotient = IntFloorDiv(division.numerator, division.denominator),
                 !.remainder = IntMod(division.numerator, division.denominator),
                 !.decimal_digits = <<>>,
                 !.iter = 0]
    /\ UNCHANGED <<main, workers, sqrt>>

(* lines 125-128: the next digit and the next remainder *)
DivDigit(remainder, denominator) ==
    LET r10 == IntMul(remainder, IntOf(10))
    IN  [digit |-> IntFloorDiv(r10, denominator), remainder |-> IntMod(r10, denominator)]

(* one iteration of the for loop that does not break (lines 122-128) *)
high_precision_division_digit ==
    /\ division.pc = "loop"
    /\ division.iter < division.digits + 10
    /\ ~IsZero(division.remainder)
    /\ LET d == DivDigit(division.remainder, division.denominator)
       IN  division' = [division EXCEPT
                          !.remainder = d.remainder,
                          !.decimal_digits = Append(@, IntStr(d.digit)),
                          !.iter = @ + 1]
    /\ UNCHANGED <<main, workers, sqrt>>

(* the for loop ends: range exhausted, or break on a zero remainder *)
high_precision_division_break ==
    /\ division.pc = "loop"
    /\ (division.iter >= division.digits + 10 \/ IsZero(division.remainder))
    /\ division' = [division EXCEPT !.pc = "pad"]
    /\ UNCHANGED <<main, workers, sqrt>>

(* line 131 padding up to `digits` entries *)
PadLengthShort(digits) == digits

(* the number of list entries the padding loop brings the list up to (line 131) *)
PadLength(digits) == digits + 1

(* "while len(decimal_digits) < digits + 1: decimal_digits.append('0')"     *)
(* (lines 131-132) run to its end                                          *)
Padded(decimal_digits, length) ==
    IF Len(decimal_digits) >= length THEN decimal_digits
    ELSE decimal_digits \o [i \in 1..(length - Len(decimal_digits)) |-> <<"0">>]

(* lines 131-134: the padding loop and the join *)
high_precision_division_return ==
    /\ division.pc = "pad"
    /\ LET padded == Padded(division.decimal_digits, PadLength(division.digits))
       IN  division' = [division EXCEPT !.pc = "return", !.decimal_digits = padded,
                                        !.ret = Join(padded)]
    /\ UNCHANGED <<main, workers, sqrt>>

DivisionNext ==
    \/ high_precision_division_start
    \/ high_precision_division_digit
    \/ high_precision_division_break
    \/ high_precision_division_return

(*************************** compute_pi_terms *****************************)
(* pc: "start" (line 24), "loop" (the head of "for k in range(start,       *)
(* end + 1)", line 46), "term" (line 67, the recurrence state is that of   *)
(* k), "return", "raise".  start, end and k are plain integers.            *)

(* line 24: C = 640320**3 *)
C == IntPow(IntOf(640320), 3)

TermsCall(start, end) ==
    [pc |-> "start", start |-> start, end |-> end, k |-> None,
     fact_6k |-> None, fact_3k |-> None, fact_k_cubed |-> None, C_power |-> None,
     linear_term |-> None, total_num |-> None, total_den |-> None,
     ret |-> None, exc |-> None]

(* lines 27-41: the recurrence state of the first term *)
InitialState(start) ==
    IF start = 0
    THEN [fact_6k |-> IntOf(1), fact_3k |-> IntOf(1), fact_k_cubed |-> IntOf(1),
          C_power |-> IntOf(1), linear_term |-> IntOf(13591409)]
    ELSE [fact_6k |-> IntFactorial(6 * start),
          fact_3k |-> IntFactorial(3 * start),
          fact_k_cubed |-> IntPow(IntFactorial(start), 3),
          C_power |-> IntPow(C, start),
          linear_term |-> IntAdd(IntMul(IntOf(545140134), IntOf(start)), IntOf(13591409))]

(* "for i in range(lo, hi + 1): acc *= i" (lines 50-51 and 54-55) *)
RECURSIVE MulRange(_, _, _)
MulRange(acc, lo, hi) ==
    IF lo > hi THEN acc ELSE MulRange(IntMul(acc, IntOf(lo)), lo + 1, hi)

(* lines 50-51 with the first factor, 6k - 5, left out *)
Update6kShort(fact_6k, k) == MulRange(fact_6k, 6 * k - 4, 6 * k)

(* lines 50-51: range(6*k-5, 6*k+1) *)
Update6k(fact_6k, k) == MulRange(fact_6k, 6 * k - 5, 6 * k)
(* lines 54-55: range(3*k-2, 3*k+1) *)
Update3k(fact_3k, k) == MulRange(fact_3k, 3 * k - 2, 3 * k)
(* line 58 *)
UpdateKCubed(fact_k_cubed, k) == IntMul(fact_k_cubed, IntPow(IntOf(k), 3))
(* line 61 *)
UpdateCPower(C_power) == IntMul(C_power, C)
(* line 64 *)
UpdateLinear(linear_term) == IntAdd(linear_term, IntOf(545140134))

(* lines 78-83 without the division by the gcd *)
ReduceSkipped(new_num, new_den) == <<new_num, new_den>>

(* lines 78-83 and 256-261: divide by the gcd when it exceeds 1 *)
Reduce(new_num, new_den) ==
    LET gcd_val == IntGcd(IntAbs(new_num), new_den)
    IN  IF IntCmp(gcd_val, IntOf(1)) > 0
        THEN <<IntFloorDiv(new_num, gcd_val), IntFloorDiv(new_den, gcd_val)>>
        ELSE <<new_num, new_den>>

(* lines 253-254 with the numerator num2 not scaled by S_den *)
AddFractionsUnscaled(a, b, c, d) == <<IntAdd(IntMul(a, d), c), IntMul(b, d)>>

(* lines 74-75 and 253-254: a/b + c/d = (a*d + c*b) / (b*d) *)
AddFractions(a, b, c, d) ==
    <<IntAdd(IntMul(a, d), IntMul(c, b)), IntMul(b, d)>>

(* lines 67-83: the term of k added to the running sum *)
Accumulate(f) ==
    LET sign        == IF f.k % 2 = 0 THEN IntOf(1) ELSE IntOf(-1)
        numerator   == IntMul(IntMul(sign, f.fact_6k), f.linear_term)
        denominator == IntMul(IntMul(f.fact_3k, f.fact_k_cubed), f.C_power)
        new         == AddFractions(f.total_num, f.total_den, numerator, denominator)
    IN  IF ~IsZero(numerator) THEN Reduce(new[1], new[2])
        ELSE <<f.total_num, f.total_den>>

(* lines 24-44 *)
compute_pi_terms_start(w) ==
    /\ workers[w].pc = "start"
    /\ LET f == workers[w]
           s == InitialState(f.start)
       IN  workers' = [workers EXCEPT ![w] =
              [f EXCEPT !.pc = "loop", !.k = f.start,
                        !.fact_6k = s.fact_6k, !.fact_3k = s.fact_3k,
                        !.fact_k_cubed = s.fact_k_cubed, !.C_power = s.C_power,
                        !.linear_term = s.linear_term,
                        !.total_num = IntOf(0), !.total_den = IntOf(1)]]
    /\ UNCHANGED <<main, sqrt, division>>

(* lines 46-64: the next k, and the recurrence state advanced to it *)
compute_pi_terms_update(w) ==
    /\ workers[w].pc = "loop"
    /\ workers[w].k <= workers[w].end
    /\ LET f == workers[w]
       IN  workers' = [workers EXCEPT ![w] =
              IF f.k > f.start
              THEN [f EXCEPT !.pc = "term",
                             !.fact_6k = Update6k(f.fact_6k, f.k),
                             !.fact_3k = Update3k(f.fact_3k, f.k),
                             !.fact_k_cubed = UpdateKCubed(f.fact_k_cubed, f.k),
                             !.C_power = UpdateCPower(f.C_power),
                             !.linear_term = UpdateLinear(f.linear_term)]
              ELSE [f EXCEPT !.pc = "term"]]
    /\ UNCHANGED <<main, sqrt, division>>

(* lines 67-83 *)
compute_pi_terms_accumulate(w) ==
    /\ workers[w].pc = "term"
    /\ LET f == workers[w]
           t == Accumulate(f)
       IN  workers' = [workers EXCEPT ![w] =
              [f EXCEPT !.pc = "loop", !.k = f.k + 1,
                        !.total_num = t[1], !.total_den = t[2]]]
    /\ UNCHANGED <<main, sqrt, division>>

(* the range is exhausted: line 85 *)
compute_pi_terms_return(w) ==
    /\ workers[w].pc = "loop"
    /\ workers[w].k > workers[w].end
    /\ LET f == workers[w]
       IN  workers' = [workers EXCEPT ![w] =
              [f EXCEPT !.pc = "return", !.ret = <<f.total_num, f.total_den>>]]
    /\ UNCHANGED <<main, sqrt, division>>

TermsNext ==
    \E w \in DOMAIN workers :
        \/ compute_pi_terms_start(w)
        \/ compute_pi_terms_update(w)
        \/ compute_pi_terms_accumulate(w)
        \/ compute_pi_terms_return(w)

(* A worker process dies: the interpreter raises MemoryError or another    *)
(* exception inside compute_pi_terms (which has no raise of its own).      *)
WorkerExceptions == {Exc("MemoryError", <<>>), Exc("RuntimeError", <<>>)}

worker_fails(w) ==
    /\ workers[w].pc \in {"start", "loop", "term"}
    /\ \E e \in WorkerExceptions :
          workers' = [workers EXCEPT ![w] = [@ EXCEPT !.pc = "raise", !.exc = e]]
    /\ UNCHANGED <<main, sqrt, division>>

(********************************* main ***********************************)
(* pc: "estimate" (line 215), "partition" (230), "pool" (238), "starmap"   *)
(* (239, waiting for the workers), "merge_init" (249), "merge" (250),      *)
(* "sqrt" (266, waiting), "division" (276, waiting), "round" (279),        *)
(* "output" (291), "done"; "cancelled" (line 227); "except" (an exception  *)
(* reached the handlers of lines 313-326), "failed" (a handler has run).   *)
MainIdle == [pc |-> "idle"]

MainFrame ==
    [pc |-> "estimate", precision_digits |-> None, cpu_count |-> None,
     total_terms |-> None, num_cores |-> None, chunk_size |-> None,
     ranges |-> None, results |-> None, S_num |-> None, S_den |-> None, i |-> None,
     sqrt_precision |-> None, sqrt_val |-> None,
     numerator_val |-> None, denominator_val |-> None, decimal_str |-> None,
     pi_decimal |-> None, round_digit |-> None,
     printed |-> None, saved |-> None, exc |-> None, report |-> None]

(* lines 198-204 *)
estimate_terms_needed(precision_digits) ==
    LET base_terms == Max(10, precision_digits \div 14)
    IN  Min(base_terms + 10, 100000)

(* lines 215-227: the term count; the user may cancel on low memory *)
main_estimate ==
    /\ main.pc = "estimate"
    /\ \E proceed \in BOOLEAN :
          main' = [main EXCEPT
                     !.total_terms = estimate_terms_needed(main.precision_digits),
                     !.pc = IF proceed THEN "partition" ELSE "cancelled"]
    /\ UNCHANGED <<workers, sqrt, division>>

(* lines 230-231 *)
NumCores(cpu_count, total_terms) == Min(cpu_count, total_terms)
ChunkSize(total_terms, num_cores) == (total_terms + num_cores - 1) \div num_cores

(* lines 232-235: task i (from 0) is entry i + 1 *)
Ranges(total_terms, num_cores, chunk_size) ==
    [j \in 1..num_cores |->
        <<(j - 1) * chunk_size, Min(j * chunk_size - 1, total_terms)>>]

(* lines 230-235 *)
main_partition ==
    /\ main.pc = "partition"
    /\ LET num_cores  == NumCores(main.cpu_count, main.total_terms)
           chunk_size == ChunkSize(main.total_terms, num_cores)
       IN  main' = [main EXCEPT !.pc = "pool", !.num_cores = num_cores,
                                !.chunk_size = chunk_size,
                                !.ranges = Ranges(main.total_terms, num_cores, chunk_size)]
    /\ UNCHANGED <<workers, sqrt, division>>

(* lines 238-239: one task per range *)
main_starmap ==
    /\ main.pc = "pool"
    /\ workers' = [j \in 1..Len(main.ranges) |->
                     TermsCall(main.ranges[j][1], main.ranges[j][2])]
    /\ main' = [main EXCEPT !.pc = "starmap"]
    /\ UNCHANGED <<sqrt, division>>

AllFinished == \A w \in DOMAIN workers : workers[w].pc \in {"return", "raise"}

(* lines 239-241: starmap returns the results in the order of the ranges *)
main_starmap_return ==
    /\ main.pc = "starmap"
    /\ \A w \in DOMAIN workers : workers[w].pc = "return"
    /\ main' = [main EXCEPT !.pc = "merge_init",
                            !.results = [w \in DOMAIN workers |-> workers[w].ret]]
    /\ UNCHANGED <<workers, sqrt, division>>

(* line 239: every task is over and one has failed: starmap raises the     *)
(* exception of a failed task in main                                      *)
main_starmap_raise ==
    /\ main.pc = "starmap"
    /\ AllFinished
    /\ \E w \in DOMAIN workers :
          /\ workers[w].pc = "raise"
          /\ main' = [main EXCEPT !.pc = "except", !.exc = workers[w].exc]
    /\ UNCHANGED <<workers, sqrt, division>>

(* line 249 *)
main_merge_init ==
    /\ main.pc = "merge_init"
    /\ main' = [main EXCEPT !.pc = "merge", !.S_num = main.results[1][1],
                            !.S_den = main.results[1][2], !.i = 1]
    /\ UNCHANGED <<workers, sqrt, division>>

(* lines 251-261: results[i] merged into S_num / S_den *)
Merge(S_num, S_den, num2, den2) ==
    LET new == AddFractions(S_num, S_den, num2, den2)
    IN  Reduce(new[1], new[2])

(* one iteration of "for i in range(1, len(results))" (lines 250-261) *)
main_merge_step ==
    /\ main.pc = "merge"
    /\ main.i < Len(main.results)
    /\ LET r == main.results[main.i + 1]
           m == Merge(main.S_num, main.S_den, r[1], r[2])
       IN  main' = [main EXCEPT !.S_num = m[1], !.S_den = m[2], !.i = main.i + 1]
    /\ UNCHANGED <<workers, sqrt, division>>

(* lines 263-266 *)
main_call_sqrt ==
    /\ main.pc = "merge"
    /\ main.i >= Len(main.results)
    /\ main' = [main EXCEPT !.pc = "sqrt", !.sqrt_precision = main.precision_digits + 20]
    /\ sqrt' = SqrtCall(IntOf(640320), main.precision_digits + 20)
    /\ UNCHANGED <<workers, division>>

(* lines 266-276 *)
main_call_division ==
    /\ main.pc = "sqrt"
    /\ sqrt.pc \in {"return", "raise"}
    /\ IF sqrt.pc = "raise"
       THEN /\ main' = [main EXCEPT !.pc = "except", !.exc = sqrt.exc]
            /\ UNCHANGED division
       ELSE LET sqrt_val        == sqrt.ret
                numerator_val   == IntMul(IntMul(IntOf(640320), sqrt_val), main.S_den)
                denominator_val == IntMul(IntMul(IntOf(12), main.S_num),
                                          IntPow(IntOf(10), main.sqrt_precision))
            IN  /\ main' = [main EXCEPT !.pc = "division", !.sqrt_val = sqrt_val,
                                        !.numerator_val = numerator_val,
                                        !.denominator_val = denominator_val]
                /\ division' = DivCall(numerator_val, denominator_val,
                                       main.precision_digits + 1)
    /\ UNCHANGED <<workers, sqrt>>

(* line 276: the digits come back *)
main_division_return ==
    /\ main.pc = "division"
    /\ division.pc \in {"return", "raise"}
    /\ main' = IF division.pc = "raise"
               THEN [main EXCEPT !.pc = "except", !.exc = division.exc]
               ELSE [main EXCEPT !.pc = "round", !.decimal_str = division.ret]
    /\ UNCHANGED <<workers, sqrt, division>>

(* lines 279-280 *)
Truncated(decimal_str, precision_digits) ==
    SubSeq(decimal_str, 1, Min(precision_digits, Len(decimal_str)))
RoundDigit(decimal_str, precision_digits) ==
    IF Len(decimal_str) > precision_digits
    THEN CharDigit(decimal_str[precision_digits + 1]) ELSE 0

(* lines 285-289, for a non-empty pi_decimal *)
RoundUp(pi_decimal, precision_digits) ==
    LET num_val == IntAdd(StrInt(pi_decimal), IntOf(1))
        filled  == Zfill(IntStr(num_val), precision_digits)
    IN  IF Len(filled) > precision_digits THEN Tail(filled) ELSE filled

(* lines 279-289; int('') raises ValueError *)
main_round ==
    /\ main.pc = "round"
    /\ LET pi_decimal  == Truncated(main.decimal_str, main.precision_digits)
           round_digit == RoundDigit(main.decimal_str, main.precision_digits)
       IN  main' =
             IF round_digit >= 5
             THEN IF pi_decimal = <<>>
                  THEN [main EXCEPT !.pc = "except", !.round_digit = round_digit,
                                    !.pi_decimal = pi_decimal,
                                    !.exc = Exc("ValueError", <<>>)]
                  ELSE [main EXCEPT !.pc = "output", !.round_digit = round_digit,
                          !.pi_decimal = RoundUp(pi_decimal, main.precision_digits)]
             ELSE [main EXCEPT !.pc = "output", !.round_digit = round_digit,
                               !.pi_decimal = pi_decimal]
    /\ UNCHANGED <<workers, sqrt, division>>

(* line 300 *)
known_pi_start ==
    <<"1", "4", "1", "5", "9", "2", "6", "5", "3", "5",
      "8", "9", "7", "9", "3", "2", "3", "8", "4", "6">>

StartsWith(str, prefix) ==
    /\ Len(str) >= Len(prefix)
    /\ SubSeq(str, 1, Len(prefix)) = prefix

(* lines 291-311: the result is printed as "3." followed by pi_decimal and *)
(* saved under a name that tells whether the first 20 digits are right;    *)
(* save_pi_to_file catches a failure to write (lines 145-157)              *)
main_output ==
    /\ main.pc = "output"
    /\ \E written \in BOOLEAN :
          main' = [main EXCEPT
             !.pc = "done",
             !.printed = <<"3", ".">> \o main.pi_decimal,
             !.saved = IF ~written THEN None
                       ELSE [filename |-> IF StartsWith(main.pi_decimal, known_pi_start)
                                          THEN <<"pi_", main.precision_digits,
                                                 "_digits.txt">>
                                          ELSE <<"pi_verification_failed.txt">>,
                             content |-> <<"3", ".">> \o main.pi_decimal]]
    /\ UNCHANGED <<workers, sqrt, division>>

(* lines 313-326: the MemoryError handler prints a fixed text, the         *)
(* Exception handler prints str(e), the arguments of the exception         *)
main_except ==
    /\ main.pc = "except"
    /\ main' = [main EXCEPT
          !.pc = "failed",
          !.report = IF main.exc.type = "MemoryError"
                     THEN [handler |-> "MemoryError", text |-> <<>>]
                     ELSE [handler |-> "Exception", text |-> main.exc.args]]
    /\ UNCHANGED <<workers, sqrt, division>>

(***************************** specifications *****************************)
(* line 178: get_user_precision returns no precision below 20 *)
MinPrecision == 20

(* the bounds of the inputs *)
MaxSqrtN == 30
MaxSqrtPrecision == 2
MaxNumerator == 7
MaxDenominator == 8
MaxDigits == 2
MaxIndex == 4
MaxChunks == 3
MaxPart == 2
MaxRoundDigits == 5
MaxPrecisionDigits == 170
MaxCpuCount == 8
MaxTerms == 3
MaxCores == 3

(* high_precision_sqrt(n, precision) alone; main calls it with n = 640320 *)
SqrtInputs == (0..MaxSqrtN) \cup {640320}

InitSqrt ==
    /\ main = MainIdle
    /\ workers = <<>>
    /\ division = DivIdle
    /\ \E n \in SqrtInputs, precision \in 0..MaxSqrtPrecision :
          sqrt = SqrtCall(IntOf(n), precision)

SpecSqrt == InitSqrt /\ [][SqrtNext]_vars

(* high_precision_division(numerator, denominator, digits) alone *)
InitDivision ==
    /\ main = MainIdle
    /\ workers = <<>>
    /\ sqrt = SqrtIdle
    /\ \E numerator \in 0..MaxNumerator, denominator \in 1..MaxDenominator,
          digits \in 0..MaxDigits :
          division = DivCall(IntOf(numerator), IntOf(denominator), digits)

SpecDivision == InitDivision /\ [][DivisionNext]_vars

(* compute_pi_terms(start, end) alone *)
InitTerms ==
    /\ main = MainIdle
    /\ sqrt = SqrtIdle
    /\ division = DivIdle
    /\ \E start \in 0..MaxIndex, end \in 0..MaxIndex :
          workers = <<TermsCall(start, end)>>

SpecTerms == InitTerms /\ [][TermsNext]_vars

(* the merge of main (lines 249-261) over any list of fractions *)
Fractions ==
    {<<IntOf(n), IntOf(d)>> : n \in (-MaxPart)..MaxPart, d \in 1..MaxPart}

InitMerge ==
    /\ workers = <<>>
    /\ sqrt = SqrtIdle
    /\ division = DivIdle
    /\ \E len \in 2..MaxChunks :
          \E results \in [1..len -> Fractions] :
             main = [MainFrame EXCEPT !.pc = "merge_init", !.results = results]

MergeNext == main_merge_init \/ main_merge_step

SpecMerge == InitMerge /\ [][MergeNext]_vars

(* the rounding and the output of main (lines 279-311) over the digit      *)
(* strings high_precision_division returns for precision_digits + 1        *)
(* digits and a fraction that ends there                                   *)
RoundChars == {"0", "4", "5", "9"}

InitRound ==
    /\ workers = <<>>
    /\ sqrt = SqrtIdle
    /\ division = DivIdle
    /\ \E precision_digits \in 1..MaxRoundDigits :
          \E decimal_str \in [1..(precision_digits + 2) -> RoundChars] :
             main = [MainFrame EXCEPT !.pc = "round",
                                      !.precision_digits = precision_digits,
                                      !.decimal_str = decimal_str]

RoundNext == main_round \/ main_output

SpecRound == InitRound /\ [][RoundNext]_vars

(* main from the precision the user gave to the ranges (lines 215-235) *)
InitPartition ==
    /\ workers = <<>>
    /\ sqrt = SqrtIdle
    /\ division = DivIdle
    /\ \E precision_digits \in MinPrecision..MaxPrecisionDigits,
          cpu_count \in 1..MaxCpuCount :
          main = [MainFrame EXCEPT !.precision_digits = precision_digits,
                                   !.cpu_count = cpu_count]

PartitionNext == main_estimate \/ main_partition

SpecPartition == InitPartition /\ [][PartitionNext]_vars

(* main from the partition on (line 230), for the least precision and a    *)
(* term count handed in: estimate_terms_needed gives 20 terms or more,     *)
(* which puts 120! and C^20 in the sums                                    *)
Init ==
    /\ workers = <<>>
    /\ sqrt = SqrtIdle
    /\ division = DivIdle
    /\ \E total_terms \in 1..MaxTerms, cpu_count \in 1..MaxCores :
          main = [MainFrame EXCEPT !.pc = "partition",
                                   !.precision_digits = MinPrecision,
                                   !.cpu_count = cpu_count,
                                   !.total_terms = total_terms]

Next ==
    \/ main_partition
    \/ main_starmap
    \/ TermsNext
    \/ \E w \in DOMAIN workers : worker_fails(w)
    \/ main_starmap_return
    \/ main_starmap_raise
    \/ main_merge_init
    \/ main_merge_step
    \/ main_call_sqrt
    \/ SqrtNext
    \/ main_call_division
    \/ DivisionNext
    \/ main_division_return
    \/ main_round
    \/ main_output
    \/ main_except

Spec == Init /\ [][Next]_vars

(******************************** properties ******************************)

(* k lies in the range r = <<start, end>>, both ends included *)
InRange(k, r) == r[1] <= k /\ k <= r[2]

(* C1: for T >= 1 terms and W workers, 1 <= W <= T, the ranges main hands  *)
(* to the pool are such that every index k of 0..T, T included, lies in    *)
(* exactly one range, and every range has start <= end.                    *)
C1_PartitionCoversEveryIndex ==
    (main.pc = "pool" /\ 1 <= main.num_cores /\ main.num_cores <= main.total_terms) =>
        /\ \A k \in 0..main.total_terms :
              Cardinality({j \in 1..Len(main.ranges) : InRange(k, main.ranges[j])}) = 1
        /\ \A j \in 1..Len(main.ranges) : main.ranges[j][1] <= main.ranges[j][2]

(* the partition has been built for several workers *)
C1_Partitioned == main.pc = "pool" /\ Len(main.ranges) >= 2

(* term k of the series computed from scratch: <<numerator, denominator>> *)
ScratchTerm(k) ==
    <<IntMul(IntMul(IF k % 2 = 0 THEN IntOf(1) ELSE IntOf(-1), IntFactorial(6 * k)),
             IntAdd(IntMul(IntOf(545140134), IntOf(k)), IntOf(13591409))),
      IntMul(IntMul(IntFactorial(3 * k), IntPow(IntFactorial(k), 3)), IntPow(C, k))>>

(* the sum of the terms start..end over the product of their denominators, *)
(* never reduced                                                           *)
RECURSIVE ScratchSum(_, _)
ScratchSum(start, end) ==
    IF end < start THEN <<Int0, IntOf(1)>>
    ELSE LET s == ScratchSum(start, end - 1)
             t == ScratchTerm(end)
         IN  <<IntAdd(IntMul(s[1], t[2]), IntMul(t[1], s[2])), IntMul(s[2], t[2])>>

(* a[1]/a[2] = b[1]/b[2] for non-zero denominators *)
SameRational(a, b) == IntMul(a[1], b[2]) = IntMul(b[1], a[2])

(* C2: where compute_pi_terms forms term k, fact_6k = (6k)!, fact_3k =     *)
(* (3k)!, fact_k_cubed = (k!)^3, C_power = C^k and linear_term =           *)
(* 545140134k + 13591409, for start = 0 and for start > 0; and for         *)
(* 0 <= start <= end the pair returned is, as a rational, the sum of the   *)
(* terms start..end each computed from scratch.                            *)
C2_IncrementalSumIsExact ==
    \A w \in DOMAIN workers :
        LET f == workers[w]
        IN  /\ f.pc = "term" =>
                 /\ f.fact_6k = IntFactorial(6 * f.k)
                 /\ f.fact_3k = IntFactorial(3 * f.k)
                 /\ f.fact_k_cubed = IntPow(IntFactorial(f.k), 3)
                 /\ f.C_power = IntPow(C, f.k)
                 /\ f.linear_term = IntAdd(IntMul(IntOf(545140134), IntOf(f.k)),
                                           IntOf(13591409))
            /\ (f.pc = "return" /\ 0 <= f.start /\ f.start <= f.end) =>
                 /\ IntCmp(f.ret[2], Int0) > 0
                 /\ SameRational(f.ret, ScratchSum(f.start, f.end))

(* a range that starts after term 0 and holds three terms or more has      *)
(* been summed                                                             *)
C2_SummedFromLaterStart ==
    \E w \in DOMAIN workers :
        /\ workers[w].pc = "return"
        /\ workers[w].start > 0
        /\ workers[w].end > workers[w].start + 1

(* C3: for n >= 1 and precision p >= 0, a value r that high_precision_sqrt *)
(* returns is the floor square root of n * 10^(2p):                        *)
(* r*r <= n * 10^(2p) < (r+1)*(r+1).                                       *)
C3_SqrtIsFloorRoot ==
    (sqrt.pc = "return" /\ IntCmp(sqrt.n, IntOf(1)) >= 0) =>
        LET N == IntMul(sqrt.n, IntPow(IntOf(10), 2 * sqrt.precision))
            r == sqrt.ret
            r1 == IntAdd(r, IntOf(1))
        IN  IntLe(IntMul(r, r), N) /\ IntLt(N, IntMul(r1, r1))

(* high_precision_sqrt(2, 2) has returned 141 *)
C3_SqrtReturned ==
    /\ sqrt.pc = "return"
    /\ sqrt.n = IntOf(2)
    /\ sqrt.precision = 2
    /\ sqrt.ret = IntOf(141)

(* the scaled loop is in a cycle of two values: the next iteration gives   *)
(* back the previous x and the one after it the present x                  *)
SqrtCycles ==
    /\ sqrt.pc = "newton"
    /\ sqrt.x # sqrt.prev_x
    /\ IntCmp(sqrt.prev_x, Int0) > 0
    /\ ~IsZero(sqrt.x)
    /\ NewtonStep(sqrt.x, sqrt.scaled_n) = sqrt.prev_x
    /\ NewtonStep(sqrt.prev_x, sqrt.scaled_n) = sqrt.x

(* C4: for n >= 0 and precision p >= 0, high_precision_sqrt ends by        *)
(* returning a value: no step divides by zero, the loop that runs until x  *)
(* equals its previous value is never caught in a cycle, and for n = 0 the *)
(* value returned is 0.                                                    *)
C4_SqrtTerminates ==
    /\ sqrt.pc # "raise"
    /\ ~SqrtCycles
    /\ (sqrt.pc = "return" /\ IsZero(sqrt.n)) => IsZero(sqrt.ret)

(* the call has gone through the pre-pass into the scaled loop *)
C4_SqrtInScaledLoop == sqrt.pc = "newton" /\ sqrt.x # sqrt.prev_x

(* C5: for numerator >= 0, denominator > 0 and d >= 0 digits,              *)
(* high_precision_division returns a string of d+1 to d+10 characters      *)
(* whose i-th character is the digit floor(numerator * 10^i / denominator) *)
(* mod 10; the positions after the digits the loop produced are "0".       *)
C5_DivisionDigits ==
    division.pc = "return" =>
        LET s == division.ret
            d == division.digits
        IN  /\ Len(s) >= d + 1
            /\ Len(s) <= d + 10
            /\ \A i \in 1..Len(s) :
                  <<s[i]>> = IntStr(IntMod(IntFloorDiv(IntMul(division.numerator,
                                                              IntPow(IntOf(10), i)),
                                                       division.denominator),
                                           IntOf(10)))
            /\ \A i \in (division.iter + 1)..Len(s) : s[i] = "0"

(* a quotient that ends before d + 1 digits has come back padded *)
C5_PaddedQuotient ==
    /\ division.pc = "return"
    /\ division.iter > 0
    /\ Len(division.ret) > division.iter

(* the first d characters of str are all "9" and a character follows them *)
AllNines(str, d) == Len(str) > d /\ \A i \in 1..d : str[i] = "9"

(* C6: when the first d digits of the division result are all "9" and      *)
(* digit d+1 is 5 or more, the rounded fractional part is d zeros and the  *)
(* carry out of the first fractional digit reaches the integer part of the *)
(* result that main prints: it does not stay "3".                          *)
C6_CarryOutSignalled ==
    (/\ main.pc = "done"
     /\ AllNines(main.decimal_str, main.precision_digits)
     /\ main.round_digit >= 5) =>
        /\ main.pi_decimal = [i \in 1..main.precision_digits |-> "0"]
        /\ main.printed[1] # "3"

(* the digits "999995" have been rounded to five places and printed *)
C6_RoundedAllNines ==
    /\ main.pc = "done"
    /\ main.precision_digits = 5
    /\ SubSeq(main.decimal_str, 1, 6) = <<"9", "9", "9", "9", "9", "5">>
    /\ main.pi_decimal = <<"0", "0", "0", "0", "0">>

(* the orders in which n results can be merged *)
MergeOrders(n) ==
    {p \in [1..n -> 1..n] : \A i, j \in 1..n : p[i] = p[j] => i = j}

(* lines 249-261 over the first i entries of results *)
RECURSIVE FoldMerge(_, _)
FoldMerge(results, i) ==
    IF i = 1 THEN <<results[1][1], results[1][2]>>
    ELSE LET s == FoldMerge(results, i - 1)
         IN  Merge(s[1], s[2], results[i][1], results[i][2])

(* C7: for two or more chunk results n_i/d_i with d_i > 0, the merge of    *)
(* main ends with the same pair (S_num, S_den) whatever the order in which *)
(* the results are merged.                                                 *)
C7_MergeOrderIndependent ==
    (main.pc = "merge" /\ main.i >= Len(main.results)) =>
        \A p \in MergeOrders(Len(main.results)) :
            FoldMerge([j \in 1..Len(main.results) |-> main.results[p[j]]],
                      Len(main.results))
              = <<main.S_num, main.S_den>>

(* three different results have been merged, and the sum was reduced *)
C7_MergedThree ==
    /\ main.pc = "merge"
    /\ main.i = 3
    /\ Len(main.results) = 3
    /\ Cardinality({main.results[j] : j \in 1..3}) = 3
    /\ main.S_den # IntMul(IntMul(main.results[1][2], main.results[2][2]),
                            main.results[3][2])

(* C8: once a worker of the pool has failed, main never runs the merge,    *)
(* the square root, the division or the save, and the failure main reports *)
(* names the range of a worker that failed.                                *)
C8_WorkerFailureReported ==
    (\E w \in DOMAIN workers : workers[w].pc = "raise") =>
        /\ main.pc \in {"starmap", "except", "failed"}
        /\ main.S_num = None /\ main.decimal_str = None /\ main.saved = None
        /\ main.pc = "failed" =>
              \E w \in DOMAIN workers :
                 /\ workers[w].pc = "raise"
                 /\ \E a \in DOMAIN main.report.text :
                       main.report.text[a] = <<workers[w].start, workers[w].end>>

(* a worker has failed and main has reported the failure *)
C8_FailureHandled ==
    /\ main.pc = "failed"
    /\ \E w \in DOMAIN workers : workers[w].pc = "raise"

(* C9: compute_pi_terms called with end < start ends in an error: it does  *)
(* not return a pair.                                                      *)
C9_EmptyRangeRejected ==
    \A w \in DOMAIN workers :
        (workers[w].end < workers[w].start) => workers[w].pc # "return"

(* a call with end < start has run to its end *)
C9_EmptyRangeCalled ==
    \E w \in DOMAIN workers :
        /\ workers[w].end < workers[w].start
        /\ workers[w].pc \in {"return", "raise"}

(* den > 0 and gcd(|num|, den) = 1 *)
LowestTerms(num, den) ==
    /\ IntCmp(den, Int0) > 0
    /\ IntGcd(IntAbs(num), den) = IntOf(1)

(* C10: after every accumulation step of compute_pi_terms, the initial 0/1 *)
(* included, and after every merge step of main over the results of the    *)
(* workers, den > 0 and gcd(|num|, den) = 1.                               *)
C10_LowestTerms ==
    /\ main.pc = "starmap" =>
          \A w \in DOMAIN workers :
              workers[w].pc \in {"loop", "term", "return"} =>
                  LowestTerms(workers[w].total_num, workers[w].total_den)
    /\ main.pc = "merge" => LowestTerms(main.S_num, main.S_den)

(* the sums of two workers, one of them over more than one term, have been *)
(* merged                                                                  *)
C10_MergedSums ==
    /\ main.pc = "merge"
    /\ main.i >= 2
    /\ \E w \in DOMAIN workers : workers[w].end > workers[w].start
====
